---- MODULE Spec2Model ----
(***************************************************************************)
(* A model of the Impetus inertial-drag engine (src/src/impetus.js).       *)
(*                                                                         *)
(* Numbers.  The engine computes with JavaScript Numbers.  Here a finite   *)
(* Number is an integer count of hundredths (SCALE = 100): 3.00 is 300.    *)
(* Products and quotients are truncated toward zero to a hundredth.  The   *)
(* three non-finite Numbers (Infinity, -Infinity, NaN) and null are kept   *)
(* as distinguished values, and every arithmetic operator and comparison   *)
(* treats them as IEEE-754 / ECMAScript do.  Times (Date.now()) are whole  *)
(* milliseconds and are not scaled.                                        *)
(***************************************************************************)
EXTENDS Integers, Sequences, FiniteSets, TLC

SCALE == 100

\* ------------------------------------------------------------- bounds
\* The clock stops advancing at MaxTime; the environment delivers at most
\* MaxInputs events and API calls.
MaxTime == 120
MaxInputs == 4
MaxTapInputs == 5

\* ------------------------------------------------- JavaScript Numbers
PosInf == 2000000000
NegInf == -2000000000
NaN == 2000000001
Null == 2000000002

\* The operators on Numbers are functions of their operands, so that an
\* operand is evaluated once wherever the operator is applied.
IsNaN(a) == a = NaN
IsFinite(a) == a \notin {PosInf, NegInf, NaN}
\* ToNumber: null is 0 in arithmetic.
ToNumber[a \in Int] == IF a = Null THEN 0 ELSE a
Num(a) == ToNumber[a]

SignOf[a \in Int] == IF a > 0 THEN 1 ELSE IF a < 0 THEN -1 ELSE 0
Sign(a) == SignOf[a]
AbsOf[a \in Int] == IF a < 0 THEN -a ELSE a
AbsInt(a) == AbsOf[a]
\* integer quotient truncated toward zero
Quotient[a \in Int, b \in Int] == Sign(a) * Sign(b) * (AbsInt(a) \div AbsInt(b))
TruncDiv(a, b) == Quotient[a, b]

Negated[x \in Int] ==
    IF x = NaN THEN NaN
    ELSE IF x = PosInf THEN NegInf
    ELSE IF x = NegInf THEN PosInf
    ELSE -x
Neg(a) == Negated[Num(a)]

Sum[x \in Int, y \in Int] ==
    IF x = NaN \/ y = NaN THEN NaN
    ELSE IF x = PosInf THEN (IF y = NegInf THEN NaN ELSE PosInf)
    ELSE IF x = NegInf THEN (IF y = PosInf THEN NaN ELSE NegInf)
    ELSE IF y \in {PosInf, NegInf} THEN y
    ELSE x + y
Add(a, b) == Sum[Num(a), Num(b)]

Sub(a, b) == Add(a, Neg(b))

\* x * y / den, where den > 0 is an exact integer divisor
Product[x \in Int, y \in Int, den \in Int] ==
    IF x = NaN \/ y = NaN THEN NaN
    ELSE IF ~IsFinite(x) \/ ~IsFinite(y)
         THEN (IF x = 0 \/ y = 0 THEN NaN
               ELSE IF Sign(x) * Sign(y) > 0 THEN PosInf ELSE NegInf)
    ELSE TruncDiv(x * y, den)
MulDiv(a, b, den) == Product[Num(a), Num(b), den]

\* the product of two Numbers
Mul(a, b) == MulDiv(a, b, SCALE)

\* Math.abs
Magnitude[x \in Int] ==
    IF x = NaN THEN NaN
    ELSE IF x \in {PosInf, NegInf} THEN PosInf
    ELSE AbsInt(x)
Abs(a) == Magnitude[Num(a)]

\* <, >, <=: false whenever an operand is NaN
Less[x \in Int, y \in Int] == ~IsNaN(x) /\ ~IsNaN(y) /\ x < y
Lt(a, b) == Less[Num(a), Num(b)]
Gt(a, b) == Lt(b, a)
LessOrEqual[x \in Int, y \in Int] == ~IsNaN(x) /\ ~IsNaN(y) /\ x <= y
Le(a, b) == LessOrEqual[Num(a), Num(b)]
\* x !== 0 and x === 0 on a Number (NaN !== 0)
NotZero(a) == a # 0
\* (x) || 0: 0 and NaN are falsy
Truthy[a \in Int] == IF a = 0 \/ a = NaN THEN 0 ELSE a
OrZero(a) == Truthy[a]

\* ---------------------------------------------------- program constants
\* 0.3, 0.04, 0.11 and 2.5 in hundredths
STOP_THRESHOLD_DEFAULT == 30
BOUNCE_DECELERATION == 4
BOUNCE_ACCELERATION == 11
reboundAdjust == 250
\* a sample older than this many milliseconds is evicted
TrackingWindow == 100

\* ------------------------------------------------------------- state
VARIABLES
    options,       \* this.options: the Motion State
    stepDecelRaf,  \* this.stepDecelRaf: handle of the scheduled step, or Null
    tickRaf,       \* this.tickRaf: handle of the scheduled drag update, or Null
    frames,        \* the scheduler: callbacks requested and not yet run, FIFO
    batch,         \* the callbacks of the animation frame now running
    docListeners,  \* move/up/cancel listeners are attached to document
    srcListeners,  \* down and wheel listeners are attached (until destroy)
    now,           \* Date.now()
    calls,         \* snapshots handed to the update callback by the last handler
    hooks,         \* onDown/onUp hooks invoked by the last handler
    branch,        \* what the last deceleration step did to each axis
    last,          \* the handler that ran last
    inputs         \* how many events and API calls were delivered

vars == <<options, stepDecelRaf, tickRaf, frames, batch, docListeners,
          srcListeners, now, calls, hooks, branch, last, inputs>>

\* The engine and what it reaches, as one record that the handlers transform.
World ==
    [o |-> options, stepDecelRaf |-> stepDecelRaf, tickRaf |-> tickRaf,
     frames |-> frames, batch |-> batch, doc |-> docListeners,
     src |-> srcListeners, now |-> now, running |-> Null,
     calls |-> <<>>, hooks |-> <<>>, branch |-> [x |-> "none", y |-> "none"]]

\* The handler's result becomes the next state.
Commit(w, name) ==
    \E r \in {w} :
        /\ options' = r.o
        /\ stepDecelRaf' = r.stepDecelRaf
        /\ tickRaf' = r.tickRaf
        /\ frames' = r.frames
        /\ batch' = r.batch
        /\ docListeners' = r.doc
        /\ srcListeners' = r.src
        /\ now' = r.now
        /\ calls' = r.calls
        /\ hooks' = r.hooks
        /\ branch' = r.branch
        /\ last' = name

\* The(S) is the element of the singleton S.  The({e(v) : v \in {x}}) is e of
\* the value of x: x is evaluated once, as an argument or a stored result is
\* in the program.
The(S) == CHOOSE r \in S : TRUE

\* ------------------------------------------------------ the scheduler
Handles(q) == {q[i].h : i \in 1..Len(q)}
\* requestAnimationFrame returns a handle > 0 that no pending callback has
\* (nor the callback that is running)
InUse(w) == Handles(w.frames) \cup Handles(w.batch) \cup {w.running}
NextFree(used) ==
    CHOOSE h \in 1..(Cardinality(used) + 1) :
        /\ h \notin used
        /\ \A g \in 1..(h - 1) : g \in used
NewHandle(w) == The({NextFree(used) : used \in {InUse(w)}})

requestAnimationFrame(w, fn) ==
    The({[v EXCEPT !.frames = Append(@, [h |-> NewHandle(v), fn |-> fn])] : v \in {w}})

cancelAnimationFrame(w, handle) ==
    [w EXCEPT !.frames = SelectSeq(@, LAMBDA f : f.h # handle)]

\* ------------------------------------------------------------ helpers
Snapshot(o) ==
    [pointerActive |-> o.pointerActive, decelerating |-> o.decelerating,
     paused |-> o.paused, targetX |-> o.targetX, targetY |-> o.targetY,
     decVelX |-> o.decVelX, decVelY |-> o.decVelY]

callUpdateCallback(w) ==
    The({[v EXCEPT !.calls = Append(@, Snapshot(v.o))] : v \in {w}})

\* 0.000005 val^2 + 0.0001 val + 0.55, in millionths
dragOutOfBoundsMultiplier(val) ==
    Add(Add(MulDiv(MulDiv(val, val, 100), 5, 100), val), 550000)

Overflow(min, max, target) ==
    IF min # Null /\ Lt(target, min) THEN Sub(min, target)
    ELSE IF max # Null /\ Gt(target, max) THEN Sub(max, target)
    ELSE 0

\* checkBounds that reports the overflow and never restricts
checkBounds_neverRestricts(o, restrict) ==
    The({[x |-> d[1], y |-> d[2], inBounds |-> (d[1] = 0 /\ d[2] = 0), o |-> o] :
            d \in {<<Overflow(o.boundXmin, o.boundXmax, o.targetX),
                     Overflow(o.boundYmin, o.boundYmax, o.targetY)>>}})

Restricted(o, restrict, xDiff, yDiff) ==
    LET rx == IF restrict /\ NotZero(xDiff)
              THEN (IF Gt(xDiff, 0) THEN o.boundXmin ELSE o.boundXmax)
              ELSE o.targetX
        ry == IF restrict /\ NotZero(yDiff)
              THEN (IF Gt(yDiff, 0) THEN o.boundYmin ELSE o.boundYmax)
              ELSE o.targetY
    IN  [x |-> xDiff, y |-> yDiff, inBounds |-> (xDiff = 0 /\ yDiff = 0),
         o |-> [o EXCEPT !.targetX = rx, !.targetY = ry]]

checkBounds(o, restrict) ==
    The({Restricted(o, restrict, d[1], d[2]) :
            d \in {<<Overflow(o.boundXmin, o.boundXmax, o.targetX),
                     Overflow(o.boundYmin, o.boundYmax, o.targetY)>>}})

RECURSIVE Evict(_, _)
Evict(points, time) ==
    IF Len(points) > 0 /\ ~(time - points[1].time <= TrackingWindow)
    THEN Evict(Tail(points), time)
    ELSE points

\* addTrackingPoint that evicts nothing
addTrackingPoint_neverEvicts(w, x, y) ==
    [w EXCEPT !.o.trackingPoints = Append(@, [x |-> x, y |-> y, time |-> w.now])]

addTrackingPoint(w, x, y) ==
    LET time == w.now IN
    [w EXCEPT !.o.trackingPoints =
        Append(Evict(@, time), [x |-> x, y |-> y, time |-> time])]

\* requestTick that does not look at the ticking flag
requestTick_alwaysSchedules(w) ==
    [requestAnimationFrame(w, "updateAndRender")
        EXCEPT !.tickRaf = NewHandle(w), !.o.ticking = TRUE]

requestTick(w) ==
    LET w1 == IF ~w.o.ticking
              THEN [requestAnimationFrame(w, "updateAndRender")
                       EXCEPT !.tickRaf = NewHandle(w)]
              ELSE w
    IN  [w1 EXCEPT !.o.ticking = TRUE]

\* --------------------------------------------------------- integrator
\* xOffset / D, where D = (timeOffset / 15) / multiplier: the quotient is
\* xOffset * 15 * multiplier / timeOffset, and x / 0 is NaN or +-Infinity
DivByD(offset, timeOffset, multiplier) ==
    IF timeOffset = 0
    THEN (IF offset = 0 THEN NaN ELSE IF offset > 0 THEN PosInf ELSE NegInf)
    ELSE TruncDiv(offset * 15 * multiplier, timeOffset * SCALE)

\* startDecelAnim that starts the loop whatever the velocity and the bounds
startDecelAnim_alwaysStarts(w) ==
    LET o == w.o
        trackingPoints == o.trackingPoints
        firstPoint == trackingPoints[1]
        lastPoint == trackingPoints[Len(trackingPoints)]
        xOffset == Sub(lastPoint.x, firstPoint.x)
        yOffset == Sub(lastPoint.y, firstPoint.y)
        timeOffset == lastPoint.time - firstPoint.time
        o1 == [o EXCEPT
                 !.decVelX = OrZero(DivByD(xOffset, timeOffset, o.multiplier)),
                 !.decVelY = OrZero(DivByD(yOffset, timeOffset, o.multiplier))]
    IN  [requestAnimationFrame([w EXCEPT !.o = [o1 EXCEPT !.decelerating = TRUE]],
                               "stepDecelAnim")
            EXCEPT !.stepDecelRaf = NewHandle(w)]

startDecelAnim(w) ==
    LET o == w.o
        trackingPoints == o.trackingPoints
        firstPoint == trackingPoints[1]
        lastPoint == trackingPoints[Len(trackingPoints)]
        xOffset == Sub(lastPoint.x, firstPoint.x)
        yOffset == Sub(lastPoint.y, firstPoint.y)
        timeOffset == lastPoint.time - firstPoint.time
        o1 == [o EXCEPT
                 !.decVelX = OrZero(DivByD(xOffset, timeOffset, o.multiplier)),
                 !.decVelY = OrZero(DivByD(yOffset, timeOffset, o.multiplier))]
        diff == checkBounds(o1, FALSE)
    IN  IF \/ Gt(Abs(o1.decVelX), 1 * SCALE)
           \/ Gt(Abs(o1.decVelY), 1 * SCALE)
           \/ ~diff.inBounds
        THEN [requestAnimationFrame([w EXCEPT !.o = [o1 EXCEPT !.decelerating = TRUE]],
                                    "stepDecelAnim")
                 EXCEPT !.stepDecelRaf = NewHandle(w)]
        ELSE [w EXCEPT !.o = o1]

\* Bounce with the sign test turned around
Bounce_signFlipped(d, vel) ==
    IF ~Le(MulDiv(d, vel, 1), 0)
    THEN [vel |-> Add(vel, MulDiv(d, BOUNCE_DECELERATION, 100)),
          branch |-> "deceleration"]
    ELSE LET adjust == IF Gt(d, 0) THEN reboundAdjust ELSE -reboundAdjust
         IN  [vel |-> MulDiv(Add(d, adjust), BOUNCE_ACCELERATION, 100),
              branch |-> "acceleration"]

\* the bounce correction of one axis with overflow d: the new velocity and
\* the branch taken (the sign test is on the exact product d * vel)
Bounce(d, vel) ==
    IF Le(MulDiv(d, vel, 1), 0)
    THEN [vel |-> Add(vel, MulDiv(d, BOUNCE_DECELERATION, 100)),
          branch |-> "deceleration"]
    ELSE LET adjust == IF Gt(d, 0) THEN reboundAdjust ELSE -reboundAdjust
         IN  [vel |-> MulDiv(Add(d, adjust), BOUNCE_ACCELERATION, 100),
              branch |-> "acceleration"]

\* decVel *= friction, then target += decVel
Integrate(o) ==
    The({[ov EXCEPT !.targetX = Add(@, ov.decVelX),
                    !.targetY = Add(@, ov.decVelY)] :
            ov \in {[o EXCEPT !.decVelX = Mul(@, o.friction),
                              !.decVelY = Mul(@, o.friction)]}})

\* this.stepDecelRaf = requestAnimationFrame(this.stepDecelAnim)
RequestStep(w) ==
    The({[requestAnimationFrame(v, "stepDecelAnim")
             EXCEPT !.stepDecelRaf = NewHandle(v)] : v \in {w}})

\* the step from the stop test on: o1 is the integrated Motion State and
\* diff what checkBounds() returned for it
StopOrCorrect(w0, o1, diff) ==
    IF /\ Le(Abs(o1.decVelX), o1.stopThreshold)
       /\ Le(Abs(o1.decVelY), o1.stopThreshold)
       /\ diff.inBounds
    THEN [w0 EXCEPT !.o = [o1 EXCEPT !.decelerating = FALSE],
                    !.branch = [x |-> "stop", y |-> "stop"]]
    ELSE
    LET o2 ==
          IF o1.bounce
          THEN [o1 EXCEPT
                  !.decVelX = IF NotZero(diff.x) THEN Bounce(diff.x, @).vel ELSE @,
                  !.decVelY = IF NotZero(diff.y) THEN Bounce(diff.y, @).vel ELSE @]
          ELSE [o1 EXCEPT
                  !.targetX = IF NotZero(diff.x)
                              THEN (IF Gt(diff.x, 0) THEN o1.boundXmin ELSE o1.boundXmax)
                              ELSE @,
                  !.decVelX = IF NotZero(diff.x) THEN 0 ELSE @,
                  !.targetY = IF NotZero(diff.y)
                              THEN (IF Gt(diff.y, 0) THEN o1.boundYmin ELSE o1.boundYmax)
                              ELSE @,
                  !.decVelY = IF NotZero(diff.y) THEN 0 ELSE @]
        br == [x |-> IF ~NotZero(diff.x) THEN "free"
                     ELSE IF o1.bounce THEN Bounce(diff.x, o1.decVelX).branch
                     ELSE "clamp",
               y |-> IF ~NotZero(diff.y) THEN "free"
                     ELSE IF o1.bounce THEN Bounce(diff.y, o1.decVelY).branch
                     ELSE "clamp"]
    IN  RequestStep(callUpdateCallback([w0 EXCEPT !.o = o2, !.branch = br]))

stepDecelAnim(w) ==
    LET w0 == [w EXCEPT !.stepDecelRaf = Null]
    IN  IF ~w0.o.decelerating
        THEN [w0 EXCEPT !.branch = [x |-> "stale", y |-> "stale"]]
        ELSE The({The({StopOrCorrect(w0, o1, diff) : diff \in {checkBounds(o1, FALSE)}}) :
                    o1 \in {Integrate(w0.o)}})

\* -------------------------------------------------------- drag mapper
\* target += pointerChange * multiplier
Dragged(o) ==
    [o EXCEPT
       !.targetX = Add(@, Mul(Sub(o.pointerCurrentX, o.pointerLastX), o.multiplier)),
       !.targetY = Add(@, Mul(Sub(o.pointerCurrentY, o.pointerLastY), o.multiplier))]

\* the drag update from the bounce test on: o is the Motion State on entry,
\* o1 the dragged one and diff what checkBounds() returned for it
ResistOrClamp(w0, o, o1, diff) ==
    LET pointerChangeX == Sub(o.pointerCurrentX, o.pointerLastX)
        pointerChangeY == Sub(o.pointerCurrentY, o.pointerLastY)
        o2 == IF o1.bounce
              THEN [o1 EXCEPT
                      !.targetX = IF NotZero(diff.x)
                                  THEN Sub(@, Mul(MulDiv(pointerChangeX,
                                                         dragOutOfBoundsMultiplier(diff.x),
                                                         1000000),
                                                  o.multiplier))
                                  ELSE @,
                      !.targetY = IF NotZero(diff.y)
                                  THEN Sub(@, Mul(MulDiv(pointerChangeY,
                                                         dragOutOfBoundsMultiplier(diff.y),
                                                         1000000),
                                                  o.multiplier))
                                  ELSE @]
              ELSE checkBounds(o1, TRUE).o
    IN  The({[w1 EXCEPT !.o.pointerLastX = o.pointerCurrentX,
                        !.o.pointerLastY = o.pointerCurrentY,
                        !.o.ticking = FALSE] :
                w1 \in {callUpdateCallback([w0 EXCEPT !.o = o2])}})

updateAndRender(w) ==
    LET w0 == [w EXCEPT !.tickRaf = Null]
    IN  The({The({ResistOrClamp(w0, w0.o, o1, diff) : diff \in {checkBounds(o1, FALSE)}}) :
                o1 \in {Dragged(w0.o)}})

\* ------------------------------------------------------ event handlers
\* deltaX / 3 and deltaY / 3 are taken off the target
onWheel(w, event) ==
    LET o1 == [w.o EXCEPT !.targetX = Sub(@, TruncDiv(event.deltaX, 3)),
                          !.targetY = Sub(@, TruncDiv(event.deltaY, 3)),
                          !.decelerating = TRUE]
        w1 == callUpdateCallback([w EXCEPT !.o = o1])
    IN  [w1 EXCEPT !.o.decelerating = FALSE]

\* mousemove and touchmove events carry no deltaX: the else branch is taken
onMove(w, event) ==
    IF w.o.pointerActive /\ event.id = w.o.pointerId
    THEN LET w1 == [w EXCEPT !.o.pointerCurrentX = event.x,
                             !.o.pointerCurrentY = event.y]
         IN  requestTick(addTrackingPoint(w1, w1.o.pointerLastX, w1.o.pointerLastY))
    ELSE w

\* onDown that leaves the decelerating flag as it finds it
onDown_keepsDecelerating(w, event) ==
    IF ~w.o.pointerActive /\ ~w.o.paused
    THEN LET o1 == [w.o EXCEPT !.pointerActive = TRUE,
                               !.pointerId = event.id,
                               !.pointerCurrentX = event.x,
                               !.pointerCurrentY = event.y,
                               !.pointerLastX = event.x,
                               !.pointerLastY = event.y,
                               !.trackingPoints = <<>>]
             w1 == [w EXCEPT !.hooks = Append(@, "onDown"), !.o = o1]
         IN  [addTrackingPoint(w1, o1.pointerLastX, o1.pointerLastY)
                 EXCEPT !.doc = TRUE]
    ELSE w

\* onDown that does not look at the paused flag
onDown_ignoresPaused(w, event) ==
    IF ~w.o.pointerActive
    THEN LET o1 == [w.o EXCEPT !.pointerActive = TRUE,
                               !.decelerating = FALSE,
                               !.pointerId = event.id,
                               !.pointerCurrentX = event.x,
                               !.pointerCurrentY = event.y,
                               !.pointerLastX = event.x,
                               !.pointerLastY = event.y,
                               !.trackingPoints = <<>>]
             w1 == [w EXCEPT !.hooks = Append(@, "onDown"), !.o = o1]
         IN  [addTrackingPoint(w1, o1.pointerLastX, o1.pointerLastY)
                 EXCEPT !.doc = TRUE]
    ELSE w

onDown(w, event) ==
    IF ~w.o.pointerActive /\ ~w.o.paused
    THEN LET o1 == [w.o EXCEPT !.pointerActive = TRUE,
                               !.decelerating = FALSE,
                               !.pointerId = event.id,
                               !.pointerCurrentX = event.x,
                               !.pointerCurrentY = event.y,
                               !.pointerLastX = event.x,
                               !.pointerLastY = event.y,
                               !.trackingPoints = <<>>]
             w1 == [w EXCEPT !.hooks = Append(@, "onDown"), !.o = o1]
         IN  [addTrackingPoint(w1, o1.pointerLastX, o1.pointerLastY)
                 EXCEPT !.doc = TRUE]
    ELSE w

removeEventListeners(w) == [w EXCEPT !.doc = FALSE]

stopTracking(w) ==
    LET w1 == [w EXCEPT !.o.pointerActive = FALSE]
        w2 == addTrackingPoint(w1, w1.o.pointerLastX, w1.o.pointerLastY)
    IN  removeEventListeners(startDecelAnim(w2))

onUp(w, event) ==
    IF w.o.pointerActive /\ event.id = w.o.pointerId
    THEN stopTracking([w EXCEPT !.hooks = Append(@, "onUp")])
    ELSE w

\* ---------------------------------------------------------- public API
destroy(w) == [w EXCEPT !.src = FALSE]

pause(w) == [w EXCEPT !.o.pointerActive = FALSE, !.o.paused = TRUE]

resume(w) == [w EXCEPT !.o.paused = FALSE]

\* an argument that is not a number (Null here) leaves its axis alone
setValue(w, x, y) ==
    [w EXCEPT !.o.targetX = IF x # Null THEN x ELSE @,
              !.o.targetY = IF y # Null THEN y ELSE @]

cancel(w) ==
    LET w1 == removeEventListeners(
                [w EXCEPT !.o.decelerating = FALSE,
                          !.o.pointerActive = FALSE,
                          !.o.ticking = FALSE,
                          !.o.decVelX = 0,
                          !.o.decVelY = 0])
        w2 == IF w1.stepDecelRaf # Null
              THEN [cancelAnimationFrame(w1, w1.stepDecelRaf)
                       EXCEPT !.stepDecelRaf = Null]
              ELSE w1
    IN  IF w2.tickRaf # Null
        THEN [cancelAnimationFrame(w2, w2.tickRaf) EXCEPT !.tickRaf = Null]
        ELSE w2

\* ------------------------------------------------------- construction
\* the values the environment and the configuration are drawn from
U(n) == n * SCALE
NoBound == <<Null, Null>>
Bound100 == <<U(0), U(100)>>
\* bounce on or off, both axes bounded to [0, 100], starting at (100, 0)
Configs ==
    [bounce : BOOLEAN, friction : {50}, multiplier : {U(1)},
     boundX : {Bound100}, boundY : {Bound100},
     initialValues : {<<U(100), 0>>}]
\* the mouse (null) and one touch
PointerIds == {Null, 0}
DownPoints == {<<U(0), U(0)>>}
MovePoints == {<<U(0), U(0)>>, <<U(10), U(10)>>}
WheelDeltas == {<<U(90), U(90)>>}
Values == {<<U(150), Null>>}
TimeSteps == {0, 60}

constructor(c) ==
    [bounce |-> c.bounce, friction |-> c.friction, multiplier |-> c.multiplier,
     stopThreshold |-> Mul(STOP_THRESHOLD_DEFAULT, c.multiplier),
     targetX |-> c.initialValues[1], targetY |-> c.initialValues[2],
     paused |-> FALSE, ticking |-> FALSE, decelerating |-> FALSE,
     pointerActive |-> FALSE, trackingPoints |-> <<>>,
     pointerCurrentX |-> Null, pointerCurrentY |-> Null,
     pointerLastX |-> Null, pointerLastY |-> Null,
     boundXmin |-> c.boundX[1], boundXmax |-> c.boundX[2],
     boundYmin |-> c.boundY[1], boundYmax |-> c.boundY[2],
     pointerId |-> Null, decVelX |-> Null, decVelY |-> Null]

\* the update callback is called once by the constructor when initialValues
\* are given, before the bounds are stored
InitWith(configs) ==
    \E c \in configs :
        /\ options = constructor(c)
        /\ calls = IF c.initialValues # <<0, 0>>
                   THEN <<Snapshot([constructor(c) EXCEPT
                             !.boundXmin = Null, !.boundXmax = Null,
                             !.boundYmin = Null, !.boundYmax = Null])>>
                   ELSE <<>>
        /\ stepDecelRaf = Null
        /\ tickRaf = Null
        /\ frames = <<>>
        /\ batch = <<>>
        /\ docListeners = FALSE
        /\ srcListeners = TRUE
        /\ now = 0
        /\ hooks = <<>>
        /\ branch = [x |-> "none", y |-> "none"]
        /\ last = "constructor"
        /\ inputs = 0

Init == InitWith(Configs)

\* ------------------------------------------------------------ actions
\* the engine as a pointer event finds it, dt milliseconds after the last one
After(dt) == [World EXCEPT !.now = now + dt]
Delays(steps) == {dt \in steps : now + dt <= MaxTime}

\* touchstart / mousedown on the source element
DownEvent(ids, points, steps) ==
    /\ srcListeners
    /\ \E id \in ids, p \in points, dt \in Delays(steps) :
           Commit(onDown(After(dt), [id |-> id, x |-> p[1], y |-> p[2]]), "onDown")

\* touchmove / mousemove on document
MoveEvent(ids, points, steps) ==
    /\ docListeners
    /\ \E id \in ids, p \in points, dt \in Delays(steps) :
           Commit(onMove(After(dt), [id |-> id, x |-> p[1], y |-> p[2]]), "onMove")

\* touchend / mouseup on document
UpEvent(ids, steps) ==
    /\ docListeners
    /\ \E id \in ids, dt \in Delays(steps) :
           Commit(onUp(After(dt), [id |-> id]), "onUp")

\* touchcancel on document runs stopTracking itself
TouchCancelEvent(steps) ==
    /\ docListeners
    /\ \E dt \in Delays(steps) : Commit(stopTracking(After(dt)), "stopTracking")

\* wheel on window
WheelEvent(deltas) ==
    /\ srcListeners
    /\ \E d \in deltas :
           Commit(onWheel(World, [deltaX |-> d[1], deltaY |-> d[2]]), "onWheel")

\* an event or an API call is delivered between animation frames
Input == batch = <<>> /\ inputs < MaxInputs /\ inputs' = inputs + 1

Down == Input /\ DownEvent(PointerIds, DownPoints, TimeSteps)

Move == Input /\ MoveEvent(PointerIds, MovePoints, TimeSteps)

Up == Input /\ UpEvent(PointerIds, TimeSteps)

TouchCancel == Input /\ TouchCancelEvent(TimeSteps)

Wheel == Input /\ WheelEvent(WheelDeltas)

Pause == Input /\ Commit(pause(World), "pause")

Resume == Input /\ Commit(resume(World), "resume")

Cancel == Input /\ Commit(cancel(World), "cancel")

Destroy == Input /\ Commit(destroy(World), "destroy")

SetValue ==
    /\ Input
    /\ \E v \in Values : Commit(setValue(World, v[1], v[2]), "setValue")

\* An animation frame runs, in order, the callbacks that were pending when it
\* began; callbacks requested meanwhile wait for the next frame.
FrameQueue == IF batch # <<>> THEN batch ELSE frames
InFrame(w) ==
    [w EXCEPT !.batch = Tail(FrameQueue),
              !.frames = IF batch # <<>> THEN @ ELSE <<>>,
              !.running = Head(FrameQueue).h]

StepDecelFrame ==
    /\ FrameQueue # <<>>
    /\ Head(FrameQueue).fn = "stepDecelAnim"
    /\ \E w \in {InFrame(World)} : Commit(stepDecelAnim(w), "stepDecelAnim")
    /\ UNCHANGED inputs

TickFrame ==
    /\ FrameQueue # <<>>
    /\ Head(FrameQueue).fn = "updateAndRender"
    /\ \E w \in {InFrame(World)} : Commit(updateAndRender(w), "updateAndRender")
    /\ UNCHANGED inputs

Next ==
    \/ Down
    \/ Move
    \/ Up
    \/ TouchCancel
    \/ Wheel
    \/ Pause
    \/ Resume
    \/ Cancel
    \/ Destroy
    \/ SetValue
    \/ StepDecelFrame
    \/ TickFrame

Spec == Init /\ [][Next]_vars

\* ---- deceleration left alone: bounce mode with and without bounds, two
\* frictions and two multipliers; the mouse drags and releases, no input
\* arrives while a deceleration runs, and frames keep coming (a pending
\* callback is eventually run)
DecelConfigs ==
    [bounce : {TRUE}, friction : {50, 92}, multiplier : {U(1), U(2)},
     boundX : {NoBound, Bound100}, boundY : {NoBound},
     initialValues : {<<U(100), 0>>}]
DecelInit == InitWith(DecelConfigs)
Decelerating ==
    \/ options.decelerating
    \/ \E i \in 1..Len(frames \o batch) : (frames \o batch)[i].fn = "stepDecelAnim"
DecelInput == ~Decelerating /\ Input
DecelDown == DecelInput /\ DownEvent({Null}, DownPoints, TimeSteps)
DecelMove == DecelInput /\ MoveEvent({Null}, MovePoints, TimeSteps)
DecelUp == DecelInput /\ UpEvent({Null}, TimeSteps)
DecelNext ==
    \/ DecelDown
    \/ DecelMove
    \/ DecelUp
    \/ StepDecelFrame
    \/ TickFrame

\* The browser runs every requested animation frame callback.
DecelSpec ==
    /\ DecelInit
    /\ [][DecelNext]_vars
    /\ WF_vars(StepDecelFrame)
    /\ WF_vars(TickFrame)

\* ---- quick taps: touches that go down and up again before the next frame,
\* on an engine constructed out of bounds
TapConfigs ==
    [bounce : {TRUE}, friction : {50}, multiplier : {U(1)},
     boundX : {Bound100}, boundY : {NoBound},
     initialValues : {<<U(120), 0>>}]
TapInit == InitWith(TapConfigs)
TapInput == batch = <<>> /\ inputs < MaxTapInputs /\ inputs' = inputs + 1
TapDown == TapInput /\ DownEvent({0}, DownPoints, {0})
TapUp == TapInput /\ UpEvent({0}, {0})
TapCancel == TapInput /\ Commit(cancel(World), "cancel")
TapNext == TapDown \/ TapUp \/ TapCancel \/ StepDecelFrame
TapSpec == TapInit /\ [][TapNext]_vars

\* ---- scenario A: no bounds, multiplier 1, friction 0.92; the pointer goes
\* down at (0,0), moves to (10,0) and is released, 0 or 50 ms apart
ScenarioAConfigs ==
    [bounce : {TRUE}, friction : {92}, multiplier : {U(1)},
     boundX : {NoBound}, boundY : {NoBound},
     initialValues : {<<0, 0>>}]
ScenarioAInit == InitWith(ScenarioAConfigs)
ScenarioADown == Input /\ DownEvent({Null}, {<<U(0), U(0)>>}, {0, 50})
ScenarioAMove == Input /\ MoveEvent({Null}, {<<U(10), U(0)>>}, {0, 50})
ScenarioAUp == Input /\ UpEvent({Null}, {0, 50})
ScenarioANext ==
    \/ ScenarioADown
    \/ ScenarioAMove
    \/ ScenarioAUp
    \/ StepDecelFrame
    \/ TickFrame
ScenarioASpec == ScenarioAInit /\ [][ScenarioANext]_vars

\* ============================================================== claims
BothFlags(r) == r.decelerating /\ r.pointerActive
\* a release ran: an up event of the tracked pointer, or a touchcancel
ReleaseRan == (last = "onUp" /\ hooks = <<"onUp">>) \/ last = "stopTracking"
\* a deceleration step that integrated (not the stale callback that finds
\* decelerating false and returns)
StepRan == last = "stepDecelAnim" /\ branch.x # "stale"
StepPending ==
    \E i \in 1..Len(frames \o batch) : (frames \o batch)[i].fn = "stepDecelAnim"
InRange(min, max, target) ==
    (min # Null /\ max # Null) => (Le(min, target) /\ Le(target, max))

\* C1, as claimed: decelerating and pointerActive are never both true, in the
\* Motion State after every handler and in every snapshot handed to the
\* update callback.
C1_FlagsNeverBothTrue ==
    /\ ~BothFlags(options)
    /\ \A i \in 1..Len(calls) : ~BothFlags(calls[i])

\* C1, amended: decelerating and pointerActive are never both true in the
\* Motion State after every handler, nor in a snapshot handed to the update
\* callback by a drag update or a deceleration step (onWheel hands over a
\* snapshot with decelerating set, whatever pointerActive is).
C1_FlagsNeverBothTrueBetweenEvents ==
    /\ ~BothFlags(options)
    /\ last # "onWheel" => \A i \in 1..Len(calls) : ~BothFlags(calls[i])

\* a pointer went down while a deceleration step was pending
C1_Witness ==
    /\ last = "onDown"
    /\ options.pointerActive
    /\ ~options.decelerating
    /\ StepPending

\* C2: with bounce disabled, after every drag update and every deceleration
\* step, the target of each axis that has both bounds lies within them.
C2_TargetClampedWithoutBounce ==
    (~options.bounce /\ (last = "updateAndRender" \/ StepRan)) =>
        /\ InRange(options.boundXmin, options.boundXmax, options.targetX)
        /\ InRange(options.boundYmin, options.boundYmax, options.targetY)

C2_Witness ==
    /\ ~options.bounce
    /\ last = "stepDecelAnim"
    /\ branch.x = "clamp"
    /\ options.targetX = options.boundXmax
    /\ options.decVelX = 0

\* C3: after cancel() both flags are false, the velocity is 0 on both axes
\* and no frame callback is pending.
C3_CancelLeavesNothingPending ==
    last = "cancel" =>
        /\ ~options.pointerActive
        /\ ~options.decelerating
        /\ options.decVelX = 0
        /\ options.decVelY = 0
        /\ stepDecelRaf = Null
        /\ tickRaf = Null
        /\ frames = <<>>

\* C4: after destroy() no frame callback is pending, and no later event or
\* frame changes the Motion State or invokes the update callback.
EventOrFrame ==
    {"onDown", "onMove", "onUp", "stopTracking", "onWheel",
     "stepDecelAnim", "updateAndRender"}
C4_DestroyIsTerminal ==
    /\ [](last = "destroy" => frames = <<>>)
    /\ [][(~srcListeners /\ last' \in EventOrFrame) =>
            (options' = options /\ calls' = <<>>)]_vars

\* C5: paused implies not pointerActive; a down event received while paused
\* changes nothing and runs no onDown hook; a down event received when
\* neither paused nor tracking (as after resume()) starts a drag.
C5_NoDragWhilePaused ==
    /\ [](options.paused => ~options.pointerActive)
    /\ [][(last' = "onDown" /\ options.paused) =>
            (/\ options' = options
             /\ hooks' = <<>>
             /\ docListeners' = docListeners
             /\ frames' = frames)]_vars
    /\ [][(last' = "onDown" /\ ~options.paused /\ ~options.pointerActive) =>
            (options'.pointerActive /\ hooks' = <<"onDown">>)]_vars

C5_Witness ==
    /\ last = "onDown"
    /\ options.paused
    /\ ~options.pointerActive
    /\ hooks = <<>>
    /\ docListeners

\* C6: while the engine is paused no drag update changes the target or
\* invokes the update callback.
C6_NoDragUpdateWhilePaused ==
    [][(options.paused /\ last' = "updateAndRender") =>
         (/\ options'.targetX = options.targetX
          /\ options'.targetY = options.targetY
          /\ calls' = <<>>)]_vars

\* C7: at release, when the oldest and the newest retained samples have the
\* same timestamp, the estimated velocity is 0 on both axes; and velocity and
\* target are finite in every reachable state.
C7_ZeroElapsedTimeGivesZeroVelocity ==
    /\ (/\ ReleaseRan
        /\ options.trackingPoints[1].time
             = options.trackingPoints[Len(options.trackingPoints)].time)
       => (options.decVelX = 0 /\ options.decVelY = 0)
    /\ IsFinite(options.decVelX) /\ IsFinite(options.decVelY)
    /\ IsFinite(options.targetX) /\ IsFinite(options.targetY)

\* C8: without bounds and with bounds in bounce mode, with frames kept coming
\* and no further input, every deceleration ends: decelerating false, no step
\* pending, both velocities within the stop threshold and the target in
\* bounds.
Settled ==
    /\ ~options.decelerating
    /\ ~StepPending
    /\ Le(Abs(options.decVelX), options.stopThreshold)
    /\ Le(Abs(options.decVelY), options.stopThreshold)
    /\ checkBounds(options, FALSE).inBounds
C8_DecelerationTerminates == options.decelerating ~> Settled

\* a deceleration whose velocity is finite does end
FiniteVelocity == IsFinite(options.decVelX) /\ IsFinite(options.decVelY)
FiniteDecelerationTerminates ==
    (options.decelerating /\ FiniteVelocity) ~> Settled

\* C9: pointer down at p0 at t0, moved to p1, released at t1 with
\* t0 < t1 <= t0 + 100 and |p1 - p0| / ((t1 - t0) / 15 / multiplier) > 1:
\* the release enters Decelerating.
C9_FastReleaseDecelerates ==
    LET first == options.trackingPoints[1]
        newest == options.trackingPoints[Len(options.trackingPoints)]
    IN  (/\ ReleaseRan
         /\ first.time < newest.time
         /\ newest.time <= first.time + 100
         /\ Gt(Abs(DivByD(Sub(options.pointerCurrentX, first.x),
                          newest.time - first.time, options.multiplier)),
               1 * SCALE))
        => options.decelerating

\* C10: a step taken in bounce mode from a target beyond the max bound with
\* the velocity pointing further out.
OutwardBeyondMax(o) ==
    /\ o.bounce
    /\ o.decelerating
    /\ o.boundXmax # Null
    /\ IsFinite(o.targetX) /\ IsFinite(o.decVelX)
    /\ o.targetX > o.boundXmax
    /\ o.decVelX > 0

\* C10, as claimed: that step takes the bounce-acceleration branch and leaves
\* velX negative.
C10_OutwardStepAccelerates ==
    [][(OutwardBeyondMax(options) /\ last' = "stepDecelAnim") =>
         (branch'.x = "acceleration" /\ Lt(options'.decVelX, 0))]_vars

\* C10, amended: that step takes the bounce-deceleration branch (o * vel <= 0
\* holds), which adds 0.04 times the (negative) overflow to the velocity that
\* friction left: velX is pulled back, and is negative only when the pull
\* exceeds that velocity.
C10_OutwardStepDecelerates ==
    [][(OutwardBeyondMax(options) /\ last' = "stepDecelAnim") =>
         LET v == Mul(options.decVelX, options.friction)
             o == options.boundXmax - (options.targetX + v)
         IN  /\ branch'.x = "deceleration"
             /\ options'.decVelX = v + TruncDiv(o * BOUNCE_DECELERATION, 100)
             /\ options'.decVelX <= v]_vars

\* after such a step the velocity still points outward
C10_Witness ==
    /\ last = "stepDecelAnim"
    /\ branch.x = "deceleration"
    /\ options.bounce
    /\ IsFinite(options.targetX) /\ IsFinite(options.decVelX)
    /\ options.decVelX > 0
    /\ options.targetX - options.decVelX > options.boundXmax

\* C11: every drag update, deceleration step (the last one before stopping
\* included) and wheel event that changes the target hands the update
\* callback, within the same step, a snapshot that holds the new target.
TargetChanged ==
    options'.targetX # options.targetX \/ options'.targetY # options.targetY
C11_CallbackOnEveryChange ==
    [][(last' \in {"updateAndRender", "stepDecelAnim", "onWheel"} /\ TargetChanged) =>
         (/\ calls' # <<>>
          /\ calls'[Len(calls')].targetX = options'.targetX
          /\ calls'[Len(calls')].targetY = options'.targetY)]_vars

\* C12: while a pointer is tracked, a second down event and any move, up or
\* cancel event of another pointer leave the Motion State and the pending
\* frames as they were.
\* an event of a pointer other than the tracked one, as a step
OtherPointerDown ==
    DownEvent(PointerIds, DownPoints, TimeSteps)
OtherPointerMove ==
    MoveEvent({id \in PointerIds : id # options.pointerId}, MovePoints, TimeSteps)
OtherPointerUp ==
    UpEvent({id \in PointerIds : id # options.pointerId}, TimeSteps)
\* the mouse is tracked and a touch is cancelled
OtherPointerCancel ==
    options.pointerId = Null /\ TouchCancelEvent(TimeSteps)
EventDropped ==
    /\ options' = options
    /\ frames' = frames
    /\ batch' = batch
    /\ stepDecelRaf' = stepDecelRaf
    /\ tickRaf' = tickRaf
    /\ calls' = <<>>
    /\ hooks' = <<>>
C12_OtherPointersAreIgnored ==
    [][(/\ options.pointerActive
        /\ \/ OtherPointerDown
           \/ OtherPointerMove
           \/ OtherPointerUp
           \/ OtherPointerCancel) => EventDropped]_vars

\* the part that holds: second downs, and moves and ups of other pointers
OtherPointerDownMoveUpAreIgnored ==
    [][(/\ options.pointerActive
        /\ \/ OtherPointerDown
           \/ OtherPointerMove
           \/ OtherPointerUp) => EventDropped]_vars

\* C13: a wheel event takes a third of its delta off the target of each axis
\* and invokes the update callback exactly once; pointerActive, decelerating,
\* paused, ticking, the velocity and the pending frame callbacks are after
\* the event what they were before it.
WheelKeeps ==
    /\ options'.pointerActive = options.pointerActive
    /\ options'.decelerating = options.decelerating
    /\ options'.paused = options.paused
    /\ options'.ticking = options.ticking
    /\ options'.decVelX = options.decVelX
    /\ options'.decVelY = options.decVelY
    /\ frames' = frames
    /\ batch' = batch
C13_WheelChangesOnlyTheTarget ==
    [][last' = "onWheel" =>
         (/\ \E d \in WheelDeltas :
                /\ options'.targetX = Sub(options.targetX, TruncDiv(d[1], 3))
                /\ options'.targetY = Sub(options.targetY, TruncDiv(d[2], 3))
          /\ Len(calls') = 1
          /\ WheelKeeps)]_vars

\* the start condition of startDecelAnim on the Motion State it leaves
StartCondition(o) ==
    \/ Gt(Abs(o.decVelX), 1 * SCALE)
    \/ Gt(Abs(o.decVelY), 1 * SCALE)
    \/ ~checkBounds(o, FALSE).inBounds

\* C14: when an up event of the tracked pointer or a cancel event ends a
\* drag, the onUp hook runs exactly once, a final sample (the last pointer
\* position, now) is recorded and the start condition decides whether the
\* engine decelerates.
DragEnded ==
    /\ options.pointerActive
    /\ last' \in {"onUp", "stopTracking"}
    /\ ~options'.pointerActive
FinalSampleRecorded ==
    /\ options'.trackingPoints # <<>>
    /\ options'.trackingPoints[Len(options'.trackingPoints)] =
          [x |-> options.pointerLastX, y |-> options.pointerLastY, time |-> now']
C14_ReleaseRunsOnUpHookOnce ==
    [][DragEnded =>
         (/\ hooks' = <<"onUp">>
          /\ FinalSampleRecorded
          /\ options'.decelerating = StartCondition(options'))]_vars

\* the part that holds: what a cancel event skips is the hook only
ReleaseRecordsAndDecides ==
    [][DragEnded =>
         (/\ last' = "onUp" => hooks' = <<"onUp">>
          /\ FinalSampleRecorded
          /\ options'.decelerating = StartCondition(options'))]_vars

\* C15: at every moment at most one deceleration step callback is pending.
StepsPending ==
    Cardinality({i \in 1..Len(frames \o batch) :
                    (frames \o batch)[i].fn = "stepDecelAnim"})
C15_AtMostOneStepPending == StepsPending <= 1

\* C16: at most one drag-update callback is pending, ticking is true exactly
\* when one is pending, and a move event of the tracked pointer that arrives
\* while ticking is true schedules nothing: it overwrites the current
\* pointer position (and records a sample), and leaves the pending frames,
\* the handles and the rest of the Motion State as they were.
TicksPending ==
    Cardinality({i \in 1..Len(frames \o batch) :
                    (frames \o batch)[i].fn = "updateAndRender"})
TickingMatchesPending ==
    /\ TicksPending <= 1
    /\ options.ticking <=> TicksPending = 1
    /\ options.ticking <=> tickRaf # Null
MoveWhileTicking ==
    /\ last' = "onMove"
    /\ options.ticking
    /\ options' # options
C16_OneDragUpdatePerTick ==
    /\ []TickingMatchesPending
    /\ [][MoveWhileTicking =>
            (/\ frames' = frames
             /\ batch' = batch
             /\ tickRaf' = tickRaf
             /\ \E p \in MovePoints :
                   options' = [options EXCEPT
                                 !.pointerCurrentX = p[1],
                                 !.pointerCurrentY = p[2],
                                 !.trackingPoints =
                                     Append(Evict(@, now'),
                                            [x |-> options.pointerLastX,
                                             y |-> options.pointerLastY,
                                             time |-> now'])])]_vars

\* a second move arrived before the drag update of the first one ran
C16_Witness ==
    /\ last = "onMove"
    /\ options.ticking
    /\ TicksPending = 1
    /\ Len(options.trackingPoints) >= 3
    /\ options.pointerCurrentX # options.pointerLastX

\* C17: a down event received while decelerating (and not paused) starts a
\* drag at once and leaves the scheduled step pending; while the pointer is
\* active, a deceleration step that fires changes neither target nor
\* velocity and does not invoke the update callback.
C17_DownPreemptsDeceleration ==
    /\ [][(/\ last' = "onDown"
           /\ options.decelerating
           /\ ~options.pointerActive
           /\ ~options.paused) =>
            (/\ options'.pointerActive
             /\ ~options'.decelerating
             /\ frames' = frames
             /\ batch' = batch)]_vars
    /\ [][(options.pointerActive /\ last' = "stepDecelAnim") =>
            (/\ options' = options
             /\ calls' = <<>>)]_vars

\* the step scheduled before the down fired during the drag
C17_Witness ==
    /\ last = "stepDecelAnim"
    /\ branch.x = "stale"
    /\ options.pointerActive
    /\ ~options.decelerating
    /\ calls = <<>>

\* C18: the sample window is ordered oldest-first by timestamp and no
\* retained sample is more than 100 ms older than the newest; every record
\* operation leaves it non-empty with the newest sample stamped now; a drag
\* start resets it to exactly one sample, the down position.
WindowOrdered ==
    \A i, j \in 1..Len(options.trackingPoints) :
        i < j => options.trackingPoints[i].time <= options.trackingPoints[j].time
WindowRecent ==
    \A i \in 1..Len(options.trackingPoints) :
        options.trackingPoints[Len(options.trackingPoints)].time
            - options.trackingPoints[i].time <= 100
C18_SampleWindowIsOrderedAndRecent ==
    /\ [](WindowOrdered /\ WindowRecent)
    /\ [][options'.trackingPoints # options.trackingPoints =>
            (/\ options'.trackingPoints # <<>>
             /\ options'.trackingPoints[Len(options'.trackingPoints)].time = now')]_vars
    /\ [][(last' = "onDown" /\ hooks' = <<"onDown">>) =>
            options'.trackingPoints =
                <<[x |-> options'.pointerCurrentX,
                   y |-> options'.pointerCurrentY,
                   time |-> now']>>]_vars

\* a sample was recorded into a window that no longer starts with the first
\* sample of the run and that spans time
C18_Witness ==
    /\ last = "onMove"
    /\ Len(options.trackingPoints) >= 2
    /\ options.trackingPoints[1].time > 0
    /\ options.trackingPoints[1].time < now
    /\ options.trackingPoints[Len(options.trackingPoints)].time = now

\* C19: with bounce disabled, after a wheel event has been processed the
\* target lies within [min, max] on every axis that has both bounds, both in
\* the Motion State the event leaves and in the snapshot handed to the update
\* callback.
Clamped(o) ==
    /\ InRange(o.boundXmin, o.boundXmax, o.targetX)
    /\ InRange(o.boundYmin, o.boundYmax, o.targetY)
C19_WheelKeepsTargetClamped ==
    [][(last' = "onWheel" /\ ~options.bounce) =>
         (/\ Clamped(options')
          /\ \A i \in 1..Len(calls') : Clamped(calls'[i]))]_vars

\* C20: a release starts the deceleration loop exactly when |decVelX| > 1 or
\* |decVelY| > 1 or the target is out of bounds: then decelerating becomes
\* true and one deceleration step is scheduled; otherwise decelerating is
\* false after the release, the pending frame callbacks are what they were
\* and the release hands nothing to the update callback.
LoopStarted ==
    /\ options'.decelerating
    /\ StepsPending' = StepsPending + 1
    /\ \E i \in 1..Len(frames') :
          /\ frames'[i].fn = "stepDecelAnim"
          /\ frames'[i].h = stepDecelRaf'
LoopNotStarted ==
    /\ ~options'.decelerating
    /\ frames' = frames
    /\ batch' = batch
    /\ stepDecelRaf' = stepDecelRaf
    /\ calls' = <<>>
C20_ReleaseStartsLoopIffMovingOrOutOfBounds ==
    [][DragEnded =>
         IF StartCondition(options') THEN LoopStarted ELSE LoopNotStarted]_vars

\* a release that found the target in bounds and both velocities within 1
\* and went straight to idle
C20_Witness ==
    /\ ReleaseRan
    /\ ~options.pointerActive
    /\ Len(options.trackingPoints) >= 2
    /\ ~StartCondition(options)
    /\ ~options.decelerating
    /\ StepsPending = 0
    /\ calls = <<>>

====
